---- MODULE Spec2Model ----
(***************************************************************************)
(* The pull-request review workflow of agent.py: three FunctionAgents      *)
(* (ContextAgent, CommentorAgent, ReviewAndPostingAgent) registered in one *)
(* AgentWorkflow, their tools, the shared "state" mapping of the workflow  *)
(* context, and main(), which runs the workflow and posts the final review.*)
(*                                                                         *)
(* agent.py declares the agents, their tools and handoff lists, and calls  *)
(* workflow_agent.run(); the turn loop that asks the language model for a  *)
(* decision, routes handoffs and dispatches tool calls is not in agent.py. *)
(* That loop is modelled from sections 4.2, 4.4, 4.5, 5 and 6 of the       *)
(* specification (the actions Decide, Final, Handoff, UnknownTool,         *)
(* AggregateToolResults).  Everything else is translated from agent.py.    *)
(***************************************************************************)
EXTENDS Naturals, Sequences, FiniteSets

\* ------------------------------------------------------------------ bounds

\* turn_count is counted up to MaxTurn and then stays there: agent.py passes
\* no ceiling to AgentWorkflow(...) or run(...), so the count itself is unbounded.
MaxTurn == 2

\* A ToolCalls decision requests 1..MaxCalls tool calls.
MaxCalls == 2

\* Artifacts (reviews, issue comments) created on the pull request are counted
\* up to MaxArtifacts.
MaxArtifacts == 2

\* The texts the language model can produce (contexts, drafts, reviews, final text).
Values == {"v1", "v2"}

\* ------------------------------------------------------- agents (agent.py)

Agents == {"ContextAgent", "CommentorAgent", "ReviewAndPostingAgent"}

\* A name no agent is registered under, which the language model may still ask for.
UnregisteredAgent == "UnregisteredAgent"

HandoffTargets == Agents \cup {UnregisteredAgent}

ReadTools == {"get_pr_details", "get_file_contents", "get_pr_commit_details"}

StateTools == {"add_context_to_state", "add_comment_to_state", "add_final_review_to_state"}

AllTools == ReadTools \cup StateTools \cup {"post_review_to_github"}

\* tools with add_comment_to_state also given to ReviewAndPostingAgent.
tools_review_writes_comment(agent) ==
    CASE agent = "ContextAgent" ->
           {"get_pr_details", "get_file_contents", "get_pr_commit_details",
            "add_context_to_state"}
      [] agent = "CommentorAgent" -> {"add_comment_to_state"}
      [] agent = "ReviewAndPostingAgent" ->
           {"add_final_review_to_state", "post_review_to_github", "add_comment_to_state"}

\* tools with post_review_to_github also given to CommentorAgent.
tools_commentor_posts(agent) ==
    CASE agent = "ContextAgent" ->
           {"get_pr_details", "get_file_contents", "get_pr_commit_details",
            "add_context_to_state"}
      [] agent = "CommentorAgent" -> {"add_comment_to_state", "post_review_to_github"}
      [] agent = "ReviewAndPostingAgent" ->
           {"add_final_review_to_state", "post_review_to_github"}

\* FunctionAgent(..., tools=[...]) of the three agents.
tools(agent) ==
    CASE agent = "ContextAgent" ->
           {"get_pr_details", "get_file_contents", "get_pr_commit_details",
            "add_context_to_state"}
      [] agent = "CommentorAgent" -> {"add_comment_to_state"}
      [] agent = "ReviewAndPostingAgent" ->
           {"add_final_review_to_state", "post_review_to_github"}

\* can_handoff_to with ReviewAndPostingAgent added to ContextAgent's list.
can_handoff_to_context_to_review(agent) ==
    CASE agent = "ContextAgent" -> {"CommentorAgent", "ReviewAndPostingAgent"}
      [] agent = "CommentorAgent" -> {"ContextAgent", "ReviewAndPostingAgent"}
      [] agent = "ReviewAndPostingAgent" -> {"CommentorAgent"}

\* can_handoff_to with ReviewAndPostingAgent's list left empty.
can_handoff_to_review_empty(agent) ==
    CASE agent = "ContextAgent" -> {"CommentorAgent"}
      [] agent = "CommentorAgent" -> {"ContextAgent", "ReviewAndPostingAgent"}
      [] agent = "ReviewAndPostingAgent" -> {}

\* can_handoff_to with the lists of CommentorAgent and ReviewAndPostingAgent
\* exchanged.
can_handoff_to_lists_exchanged(agent) ==
    CASE agent = "ContextAgent" -> {"CommentorAgent"}
      [] agent = "CommentorAgent" -> {"CommentorAgent"}
      [] agent = "ReviewAndPostingAgent" -> {"ContextAgent", "ReviewAndPostingAgent"}

\* can_handoff_to with ContextAgent added to ReviewAndPostingAgent's list.
can_handoff_to_review_to_context(agent) ==
    CASE agent = "ContextAgent" -> {"CommentorAgent"}
      [] agent = "CommentorAgent" -> {"ContextAgent", "ReviewAndPostingAgent"}
      [] agent = "ReviewAndPostingAgent" -> {"CommentorAgent", "ContextAgent"}

\* FunctionAgent(..., can_handoff_to=[...]) of the three agents.
can_handoff_to(agent) ==
    CASE agent = "ContextAgent" -> {"CommentorAgent"}
      [] agent = "CommentorAgent" -> {"ContextAgent", "ReviewAndPostingAgent"}
      [] agent = "ReviewAndPostingAgent" -> {"CommentorAgent"}

\* AgentWorkflow(root_agent=review_and_posting_agent.name, ...)
root_agent == "ReviewAndPostingAgent"

\* AgentWorkflow(initial_state={...})
initial_state ==
    [gathered_contexts |-> "", review_comment |-> "", final_review_comment |-> ""]

\* ------------------------------------------------ tool functions (agent.py)

\* Results are abstracted to their kind: "ok" is the success payload or message,
\* "error" the value the except clause returns, "raised" an exception that
\* leaves the function.

\* get_pr_details: everything is inside try; except returns {"error": ...}.
get_pr_details(github_ok) == IF github_ok THEN "ok" ELSE "error"

\* get_file_contents without its try/except: the GitHub error leaves the function.
get_file_contents_no_except(github_ok) == IF github_ok THEN "ok" ELSE "raised"

\* get_file_contents: everything is inside try; except returns "Error fetching file: ...".
get_file_contents(github_ok) == IF github_ok THEN "ok" ELSE "error"

\* get_pr_commit_details: everything is inside try; except returns [{"error": ...}].
get_pr_commit_details(github_ok) == IF github_ok THEN "ok" ELSE "error"

\* One request to GitHub and whether it succeeded (FALSE: it raised).
GithubCall(op, ok) == [op |-> op, ok |-> ok]

\* post_review_to_github making both posts, the review and then the issue
\* comment, whatever create_review did.
post_review_to_github_both_posts(pull_ok, review_ok, comment_ok) ==
    IF ~pull_ok
    THEN [result |-> "error", created |-> 0, calls |-> <<GithubCall("get_pull", FALSE)>>]
    ELSE [result |-> IF review_ok \/ comment_ok THEN "ok" ELSE "error",
          created |-> (IF review_ok THEN 1 ELSE 0) + (IF comment_ok THEN 1 ELSE 0),
          calls |-> <<GithubCall("get_pull", TRUE), GithubCall("create_review", review_ok),
                      GithubCall("create_issue_comment", comment_ok)>>]

\* post_review_to_github: get_pull, then create_review, and create_issue_comment
\* only in the handler of a failed create_review; the outer except catches a
\* failed get_pull and a failed create_issue_comment.  calls are the requests
\* made to GitHub, in order; created counts the artifacts the call leaves on the
\* pull request.
post_review_to_github(pull_ok, review_ok, comment_ok) ==
    IF ~pull_ok
    THEN [result |-> "error", created |-> 0, calls |-> <<GithubCall("get_pull", FALSE)>>]
    ELSE IF review_ok
    THEN [result |-> "ok", created |-> 1,
          calls |-> <<GithubCall("get_pull", TRUE), GithubCall("create_review", TRUE)>>]
    ELSE IF comment_ok
    THEN [result |-> "ok", created |-> 1,
          calls |-> <<GithubCall("get_pull", TRUE), GithubCall("create_review", FALSE),
                      GithubCall("create_issue_comment", TRUE)>>]
    ELSE [result |-> "error", created |-> 0,
          calls |-> <<GithubCall("get_pull", TRUE), GithubCall("create_review", FALSE),
                      GithubCall("create_issue_comment", FALSE)>>]

\* The dict assignment current_state[key] = value: the key is added when the
\* mapping does not have it, every other key keeps its value.
setitem(current_state, key, value) ==
    [k \in DOMAIN current_state \cup {key} |-> IF k = key THEN value ELSE current_state[k]]

\* current_state["gathered_contexts"] = context
add_context_to_state(current_state, context) ==
    setitem(current_state, "gathered_contexts", context)

\* add_comment_to_state assigning to the key of add_context_to_state.
add_comment_to_state_wrong_key(current_state, draft_comment) ==
    setitem(current_state, "gathered_contexts", draft_comment)

\* current_state["review_comment"] = draft_comment
add_comment_to_state(current_state, draft_comment) ==
    setitem(current_state, "review_comment", draft_comment)

\* add_final_review_to_state assigning to a key "final_review".
add_final_review_to_state_new_key(current_state, final_review) ==
    setitem(current_state, "final_review", final_review)

\* current_state["final_review_comment"] = final_review
add_final_review_to_state(current_state, final_review) ==
    setitem(current_state, "final_review_comment", final_review)

\* The assignment each state tool makes to the mapping it read.
state_tool_assign(tool, current_state, value) ==
    CASE tool = "add_context_to_state" -> add_context_to_state(current_state, value)
      [] tool = "add_comment_to_state" -> add_comment_to_state(current_state, value)
      [] tool = "add_final_review_to_state" -> add_final_review_to_state(current_state, value)

\* What a state tool returns when ctx.store.get or ctx.store.set raises:
\* the except clause returns "Error adding ... to state: ...".
state_tool_error == "error"

\* What a read tool returns for the outcome of its GitHub request.
read_tool(tool, github_ok) ==
    CASE tool = "get_pr_details" -> get_pr_details(github_ok)
      [] tool = "get_file_contents" -> get_file_contents(github_ok)
      [] tool = "get_pr_commit_details" -> get_pr_commit_details(github_ok)

\* ------------------------------------------------------------------- state

VARIABLES
    run_status,      \* "Running", "Completed" or "Failed": workflow_agent.run(...)
    fail_reason,     \* the reason of a Failed run ("" otherwise)
    final_text,      \* the text of a Completed run ("" otherwise)
    current_agent,   \* the agent whose turn it is
    turn_count,      \* turns taken (counted up to MaxTurn)
    state,           \* the "state" mapping of the workflow context store
    decision,        \* the decision being carried out (kind "none": none)
    tasks,           \* the tool calls of the decision, one per request
    dispatch_state,  \* state when the tool calls of the decision were dispatched
    turn_results,    \* what the last turn appended to history
    artifacts,       \* reviews and comments created on the pull request
    main_pc,         \* main(): "run", "done" (returned) or "raised"
    main_posted,     \* the text main() itself posted ("" when none)
    main_result,     \* what main's caller gets when main raises: the reason and
                     \* the state snapshots handed over with it
    main_calls,      \* the GitHub calls main's post_review_to_github made
    only_handoffs,   \* every decision so far was a legal handoff
    overlapped,      \* a state tool of the decision read the state while another
                     \* one stood between its read and its write
    scenario         \* progress of the scenario: 1 after ContextAgent's successful
                     \* get_pr_details, 2 after its handoff to CommentorAgent, 3 after
                     \* CommentorAgent's request to hand off to ContextAgent

vars == <<run_status, fail_reason, final_text, current_agent, turn_count, state,
          decision, tasks, dispatch_state, turn_results, artifacts, main_pc,
          main_posted, main_result, main_calls, only_handoffs, overlapped, scenario>>

\* Nothing handed to main's caller.
NoResult == [reason |-> "", snapshot |-> <<>>]

NoDecision == [kind |-> "none", to |-> "", text |-> "", calls |-> <<>>]

\* A tool-call request: the tool's name and its text argument ("" for the tools
\* whose arguments do not matter here).
Requests(agent) ==
    {[tool |-> t, arg |-> ""] : t \in tools(agent) \ StateTools}
      \cup {[tool |-> t, arg |-> v] : t \in tools(agent) \cap StateTools, v \in Values}

\* Requests for a tool the current agent does not declare.
UndeclaredRequests(agent) ==
    {[tool |-> t, arg |-> ""] : t \in (AllTools \ tools(agent)) \ StateTools}
      \cup {[tool |-> t, arg |-> v] : t \in (AllTools \ tools(agent)) \cap StateTools,
                                     v \in Values}

CallLists(agent) ==
    UNION {[1..n -> Requests(agent)] : n \in 1..MaxCalls}
      \cup {<<r>> : r \in UndeclaredRequests(agent)}

\* The decisions the language model can return for the current agent:
\* FinalText(text) | ToolCalls(calls) | Handoff(to).
Decisions(agent) ==
    {[kind |-> "final", to |-> "", text |-> v, calls |-> <<>>] : v \in Values}
      \cup {[kind |-> "handoff", to |-> a, text |-> "", calls |-> <<>>] : a \in HandoffTargets}
      \cup {[kind |-> "tools", to |-> "", text |-> "", calls |-> c] : c \in CallLists(agent)}

\* A tool call: where it stands, the mapping a state tool holds between its
\* awaits, its result, whether an operation under it failed, and the GitHub
\* calls post_review_to_github made.
NewTask ==
    [pc |-> "pending", local |-> initial_state, result |-> "none", fault |-> FALSE,
     calls |-> <<>>]

DoneTask(result, fault) ==
    [pc |-> "done", local |-> initial_state, result |-> result, fault |-> fault,
     calls |-> <<>>]

Bump(n, max) == IF n < max THEN n + 1 ELSE max

Init ==
    /\ run_status = "Running"
    /\ fail_reason = ""
    /\ final_text = ""
    /\ current_agent = root_agent
    /\ turn_count = 0
    /\ state = initial_state
    /\ decision = NoDecision
    /\ tasks = <<>>
    /\ dispatch_state = initial_state
    /\ turn_results = <<>>
    /\ artifacts = 0
    /\ main_pc = "run"
    /\ main_posted = ""
    /\ main_result = NoResult
    /\ main_calls = <<>>
    /\ only_handoffs = TRUE
    /\ overlapped = FALSE
    /\ scenario = 0

\* ------------------------------------------------ the turn loop (run(...))

\* Step 1 of a turn: the language model returns a decision for the current agent.
\* The tool calls of a ToolCalls decision are dispatched at once, each as a task
\* of its own.
Decide(d) ==
    /\ main_pc = "run"
    /\ run_status = "Running"
    /\ decision.kind = "none"
    /\ d \in Decisions(current_agent)
    /\ decision' = d
    /\ tasks' = [i \in 1..Len(d.calls) |-> NewTask]
    /\ dispatch_state' = IF d.kind = "tools" THEN state ELSE initial_state
    /\ turn_results' = <<>>
    /\ only_handoffs' = (only_handoffs /\ d.kind = "handoff"
                           /\ d.to \in can_handoff_to(current_agent))
    /\ overlapped' = FALSE
    /\ scenario' = IF scenario = 1 /\ d.kind = "handoff" /\ d.to = "CommentorAgent" THEN 1
                   ELSE IF scenario = 2 /\ d.kind = "handoff" /\ d.to = "ContextAgent" THEN 2
                   ELSE 0
    /\ UNCHANGED <<run_status, fail_reason, final_text, current_agent, turn_count, state,
                   artifacts, main_pc, main_posted, main_result, main_calls>>

\* The request to the language model fails: run(...) raises.
WorkflowError ==
    /\ main_pc = "run"
    /\ run_status = "Running"
    /\ decision.kind = "none"
    /\ run_status' = "Failed"
    /\ fail_reason' = "error"
    /\ turn_results' = <<>>
    /\ scenario' = 0
    /\ UNCHANGED <<final_text, current_agent, turn_count, state, decision, tasks,
                   dispatch_state, artifacts, main_pc, main_posted, main_result,
                   main_calls, only_handoffs, overlapped>>

\* Step 2: final text with no tool call and no handoff completes the run.
Final ==
    /\ run_status = "Running"
    /\ decision.kind = "final"
    /\ run_status' = "Completed"
    /\ final_text' = decision.text
    /\ decision' = NoDecision
    /\ turn_results' = <<"FinalText">>
    /\ scenario' = 0
    /\ UNCHANGED <<fail_reason, current_agent, turn_count, state, tasks, dispatch_state,
                   artifacts, main_pc, main_posted, main_result, main_calls,
                   only_handoffs, overlapped>>

\* The handoff router starting the target agent from the initial state.
Handoff_resets_state ==
    /\ run_status = "Running"
    /\ decision.kind = "handoff"
    /\ LET accepted == decision.to \in Agents /\ decision.to \in can_handoff_to(current_agent)
       IN  /\ current_agent' = IF accepted THEN decision.to ELSE current_agent
           /\ turn_count' = IF accepted THEN Bump(turn_count, MaxTurn) ELSE turn_count
           /\ turn_results' = IF accepted THEN <<"HandoffOk">> ELSE <<"IllegalHandoff">>
           /\ scenario' = IF accepted /\ scenario = 1 THEN 2
                          ELSE IF scenario = 2 THEN 3
                          ELSE 0
           /\ state' = IF accepted THEN initial_state ELSE state
    /\ decision' = NoDecision
    /\ UNCHANGED <<run_status, fail_reason, final_text, tasks, dispatch_state, artifacts,
                   main_pc, main_posted, main_result, main_calls, only_handoffs,
                   overlapped>>

\* Step 4: the handoff router.  A target outside the current agent's
\* can_handoff_to is rejected and the rejection goes into history; an accepted
\* handoff makes the target the current agent and counts a turn.
Handoff ==
    /\ run_status = "Running"
    /\ decision.kind = "handoff"
    /\ LET accepted == decision.to \in Agents /\ decision.to \in can_handoff_to(current_agent)
       IN  /\ current_agent' = IF accepted THEN decision.to ELSE current_agent
           /\ turn_count' = IF accepted THEN Bump(turn_count, MaxTurn) ELSE turn_count
           /\ turn_results' = IF accepted THEN <<"HandoffOk">> ELSE <<"IllegalHandoff">>
           /\ scenario' = IF accepted /\ scenario = 1 THEN 2
                          ELSE IF scenario = 2 THEN 3
                          ELSE 0
    /\ decision' = NoDecision
    /\ UNCHANGED <<run_status, fail_reason, final_text, state, tasks, dispatch_state,
                   artifacts, main_pc, main_posted, main_result, main_calls,
                   only_handoffs, overlapped>>

Pending(i) ==
    /\ run_status = "Running"
    /\ decision.kind = "tools"
    /\ i \in 1..Len(tasks)
    /\ tasks[i].pc = "pending"

\* Step 3, a tool the current agent does not declare: the invoker answers
\* UnknownTool without calling any handler.
UnknownTool(i) ==
    /\ Pending(i)
    /\ decision.calls[i].tool \notin tools(current_agent)
    /\ tasks' = [tasks EXCEPT ![i] = DoneTask("UnknownTool", FALSE)]
    /\ UNCHANGED <<run_status, fail_reason, final_text, current_agent, turn_count, state,
                   decision, dispatch_state, turn_results, artifacts, main_pc,
                   main_posted, main_result, main_calls, only_handoffs, overlapped,
                   scenario>>

\* get_pr_details, get_file_contents, get_pr_commit_details: one GitHub request,
\* which succeeds or raises inside the tool's try.
CallReadTool(i) ==
    /\ Pending(i)
    /\ decision.calls[i].tool \in tools(current_agent) \cap ReadTools
    /\ \E github_ok \in BOOLEAN :
         tasks' = [tasks EXCEPT
                     ![i] = DoneTask(read_tool(decision.calls[i].tool, github_ok), ~github_ok)]
    /\ UNCHANGED <<run_status, fail_reason, final_text, current_agent, turn_count, state,
                   decision, dispatch_state, turn_results, artifacts, main_pc,
                   main_posted, main_result, main_calls, only_handoffs, overlapped,
                   scenario>>

\* post_review_to_github called as a tool.
CallPostReview(i) ==
    /\ Pending(i)
    /\ decision.calls[i].tool = "post_review_to_github"
    /\ decision.calls[i].tool \in tools(current_agent)
    /\ \E pull_ok, review_ok, comment_ok \in BOOLEAN :
         LET out == post_review_to_github(pull_ok, review_ok, comment_ok)
         IN  /\ tasks' = [tasks EXCEPT
                           ![i] = [DoneTask(out.result, out.result # "ok")
                                     EXCEPT !.calls = out.calls]]
             /\ artifacts' = IF out.created > 0 THEN Bump(artifacts, MaxArtifacts)
                             ELSE artifacts
    /\ UNCHANGED <<run_status, fail_reason, final_text, current_agent, turn_count, state,
                   decision, dispatch_state, turn_results, main_pc, main_posted,
                   main_result, main_calls, only_handoffs, overlapped, scenario>>

\* A state tool up to its second await: current_state = await ctx.store.get(...),
\* then the assignment to its key.  A raising get is caught by the tool's except.
StateToolGet(i) ==
    /\ Pending(i)
    /\ decision.calls[i].tool \in tools(current_agent) \cap StateTools
    /\ \E store_ok \in BOOLEAN :
         tasks' = [tasks EXCEPT
                     ![i] = IF store_ok
                            THEN [pc |-> "got",
                                  local |-> state_tool_assign(decision.calls[i].tool, state,
                                                              decision.calls[i].arg),
                                  result |-> "none", fault |-> FALSE, calls |-> <<>>]
                            ELSE DoneTask(state_tool_error, TRUE)]
    /\ overlapped' = (overlapped \/ \E j \in 1..Len(tasks) : j # i /\ tasks[j].pc = "got")
    /\ UNCHANGED <<run_status, fail_reason, final_text, current_agent, turn_count, state,
                   decision, dispatch_state, turn_results, artifacts, main_pc,
                   main_posted, main_result, main_calls, only_handoffs, scenario>>

\* The rest of a state tool: await ctx.store.set("state", current_state) and the
\* success message, or the except clause's error value.
StateToolSet(i) ==
    /\ run_status = "Running"
    /\ decision.kind = "tools"
    /\ i \in 1..Len(tasks)
    /\ tasks[i].pc = "got"
    /\ \E store_ok \in BOOLEAN :
         IF store_ok
         THEN /\ state' = tasks[i].local
              /\ tasks' = [tasks EXCEPT ![i] = DoneTask("ok", FALSE)]
         ELSE /\ state' = state
              /\ tasks' = [tasks EXCEPT ![i] = DoneTask(state_tool_error, TRUE)]
    /\ UNCHANGED <<run_status, fail_reason, final_text, current_agent, turn_count,
                   decision, dispatch_state, turn_results, artifacts, main_pc,
                   main_posted, main_result, main_calls, only_handoffs, overlapped,
                   scenario>>

\* An exception that left a handler is wrapped into a failure result.
Wrap(result) == IF result = "raised" THEN "ToolExecutionFailed" ELSE result

\* The loop going on as soon as one call of the decision has its result, with the
\* results it has by then.
AggregateToolResults_first_result ==
    /\ run_status = "Running"
    /\ decision.kind = "tools"
    /\ \E i \in 1..Len(tasks) : tasks[i].pc = "done"
    /\ turn_results' = [i \in 1..Len(tasks) |-> Wrap(tasks[i].result)]
    /\ turn_count' = Bump(turn_count, MaxTurn)
    /\ scenario' = 0
    /\ decision' = NoDecision
    /\ tasks' = <<>>
    /\ dispatch_state' = initial_state
    /\ overlapped' = FALSE
    /\ UNCHANGED <<run_status, fail_reason, final_text, current_agent, state, artifacts,
                   main_pc, main_posted, main_result, main_calls, only_handoffs>>

\* Step 3, the join: when every call of the decision has its result, the results
\* go into history in the order of the requests and the turn is counted.
AggregateToolResults ==
    /\ run_status = "Running"
    /\ decision.kind = "tools"
    /\ \A i \in 1..Len(tasks) : tasks[i].pc = "done"
    /\ turn_results' = [i \in 1..Len(tasks) |-> Wrap(tasks[i].result)]
    /\ turn_count' = Bump(turn_count, MaxTurn)
    /\ scenario' = IF /\ current_agent = "ContextAgent"
                      /\ Len(tasks) = 1
                      /\ decision.calls[1].tool = "get_pr_details"
                      /\ tasks[1].result = "ok"
                   THEN 1 ELSE 0
    /\ decision' = NoDecision
    /\ tasks' = <<>>
    /\ dispatch_state' = initial_state
    /\ overlapped' = FALSE
    /\ UNCHANGED <<run_status, fail_reason, final_text, current_agent, state, artifacts,
                   main_pc, main_posted, main_result, main_calls, only_handoffs>>

\* ------------------------------------------------------------------ main()

\* main clearing final_review_comment in the state once it has posted it.
MainPost_clears_state ==
    /\ main_pc = "run"
    /\ run_status = "Completed"
    /\ LET final_review_comment == state.final_review_comment
       IN  IF final_review_comment # ""
           THEN \E pull_ok, review_ok, comment_ok \in BOOLEAN :
                  LET out == post_review_to_github(pull_ok, review_ok, comment_ok)
                  IN  /\ artifacts' = IF out.created > 0 THEN Bump(artifacts, MaxArtifacts)
                                      ELSE artifacts
                      /\ main_posted' = final_review_comment
                      /\ main_calls' = out.calls
                      /\ state' = [state EXCEPT !.final_review_comment = ""]
           ELSE UNCHANGED <<artifacts, main_posted, main_calls, state>>
    /\ main_pc' = "done"
    /\ UNCHANGED <<run_status, fail_reason, final_text, current_agent, turn_count,
                   decision, tasks, dispatch_state, turn_results, main_result,
                   only_handoffs, overlapped, scenario>>

\* main reading the draft, review_comment, instead of final_review_comment.
MainPost_posts_review_comment ==
    /\ main_pc = "run"
    /\ run_status = "Completed"
    /\ LET final_review_comment == state.review_comment
       IN  IF final_review_comment # ""
           THEN \E pull_ok, review_ok, comment_ok \in BOOLEAN :
                  LET out == post_review_to_github(pull_ok, review_ok, comment_ok)
                  IN  /\ artifacts' = IF out.created > 0 THEN Bump(artifacts, MaxArtifacts)
                                      ELSE artifacts
                      /\ main_posted' = final_review_comment
                      /\ main_calls' = out.calls
           ELSE UNCHANGED <<artifacts, main_posted, main_calls>>
    /\ main_pc' = "done"
    /\ UNCHANGED <<run_status, fail_reason, final_text, current_agent, turn_count, state,
                   decision, tasks, dispatch_state, turn_results, main_result,
                   only_handoffs, overlapped, scenario>>

\* After a completed run main reads final_review_comment from the workflow's
\* context and, when it is not empty, posts it with post_review_to_github.
MainPost ==
    /\ main_pc = "run"
    /\ run_status = "Completed"
    /\ LET final_review_comment == state.final_review_comment
       IN  IF final_review_comment # ""
           THEN \E pull_ok, review_ok, comment_ok \in BOOLEAN :
                  LET out == post_review_to_github(pull_ok, review_ok, comment_ok)
                  IN  /\ artifacts' = IF out.created > 0 THEN Bump(artifacts, MaxArtifacts)
                                      ELSE artifacts
                      /\ main_posted' = final_review_comment
                      /\ main_calls' = out.calls
           ELSE UNCHANGED <<artifacts, main_posted, main_calls>>
    /\ main_pc' = "done"
    /\ UNCHANGED <<run_status, fail_reason, final_text, current_agent, turn_count, state,
                   decision, tasks, dispatch_state, turn_results, main_result,
                   only_handoffs, overlapped, scenario>>

\* The read workflow_agent._contexts.store.state[...] is inside main's try: when
\* it raises, the except clause prints the error and raises it again.
MainReadRaises ==
    /\ main_pc = "run"
    /\ run_status = "Completed"
    /\ main_pc' = "raised"
    /\ main_result' = [reason |-> "error", snapshot |-> <<>>]
    /\ UNCHANGED <<run_status, fail_reason, final_text, current_agent, turn_count, state,
                   decision, tasks, dispatch_state, turn_results, artifacts, main_posted,
                   main_calls, only_handoffs, overlapped, scenario>>

\* A failed run: the except clause prints the error and raises it again.
MainRaise ==
    /\ main_pc = "run"
    /\ run_status = "Failed"
    /\ main_pc' = "raised"
    /\ main_result' = [reason |-> fail_reason, snapshot |-> <<>>]
    /\ UNCHANGED <<run_status, fail_reason, final_text, current_agent, turn_count, state,
                   decision, tasks, dispatch_state, turn_results, artifacts, main_posted,
                   main_calls, only_handoffs, overlapped, scenario>>

Next ==
    \/ \E d \in Decisions(current_agent) : Decide(d)
    \/ WorkflowError
    \/ Final
    \/ Handoff
    \/ \E i \in 1..MaxCalls : UnknownTool(i)
    \/ \E i \in 1..MaxCalls : CallReadTool(i)
    \/ \E i \in 1..MaxCalls : CallPostReview(i)
    \/ \E i \in 1..MaxCalls : StateToolGet(i)
    \/ \E i \in 1..MaxCalls : StateToolSet(i)
    \/ AggregateToolResults
    \/ MainPost
    \/ MainReadRaises
    \/ MainRaise

Spec == Init /\ [][Next]_vars

\* The loop and main keep taking steps while one is possible.
FairSpec == Spec /\ WF_vars(Next)

TypeOK ==
    /\ run_status \in {"Running", "Completed", "Failed"}
    /\ current_agent \in Agents
    /\ turn_count \in 0..MaxTurn
    /\ state \in [{"gathered_contexts", "review_comment", "final_review_comment"}
                    -> Values \cup {""}]
    /\ artifacts \in 0..MaxArtifacts
    /\ main_pc \in {"run", "done", "raised"}
    /\ Len(tasks) = Len(decision.calls)

\* ------------------------------------------------------------------ claims

\* The handoffs the three can_handoff_to lists declare, as (from, to) pairs.
DeclaredHandoffs ==
    {<<"ContextAgent", "CommentorAgent">>,
     <<"CommentorAgent", "ContextAgent">>,
     <<"CommentorAgent", "ReviewAndPostingAgent">>,
     <<"ReviewAndPostingAgent", "CommentorAgent">>}

\* C1: a handoff request whose target is not in the current agent's declared
\* list (ContextAgent -> ReviewAndPostingAgent, ReviewAndPostingAgent ->
\* ContextAgent, any agent to itself or to an unregistered name) is rejected as
\* IllegalHandoff: the current agent is unchanged and the run stays Running.
C1_IllegalHandoffRejected ==
    [][(/\ run_status = "Running"
        /\ decision.kind = "handoff"
        /\ <<current_agent, decision.to>> \notin DeclaredHandoffs)
       => (/\ current_agent' = current_agent
           /\ run_status' = "Running"
           /\ turn_results' = <<"IllegalHandoff">>)]_vars

\* ContextAgent, reached by handoffs, has had a request rejected and is still current.
C1_Witness ==
    /\ run_status = "Running"
    /\ current_agent = "ContextAgent"
    /\ turn_results = <<"IllegalHandoff">>

\* C2: after a legal handoff the current agent is its target, so after any
\* sequence of legal handoffs from the root agent it is the last target.
C2_LegalHandoffReachesTarget ==
    [][(/\ run_status = "Running"
        /\ decision.kind = "handoff"
        /\ <<current_agent, decision.to>> \in DeclaredHandoffs)
       => (/\ current_agent' = decision.to
           /\ run_status' = "Running"
           /\ turn_results' = <<"HandoffOk">>)]_vars

\* Only legal handoffs were decided since the start, at least two of them, and
\* the last one went to ContextAgent.
C2_Witness ==
    /\ only_handoffs
    /\ turn_count >= 2
    /\ decision.kind = "none"
    /\ current_agent = "ContextAgent"
    /\ turn_results = <<"HandoffOk">>

\* C3: a handoff, accepted or rejected, leaves all three keys of the shared
\* state as they were.
C3_HandoffKeepsState ==
    [][(run_status = "Running" /\ decision.kind = "handoff") => state' = state]_vars

\* ReviewAndPostingAgent has become current by a handoff and finds the context
\* and the draft the other two agents wrote.
C3_Witness ==
    /\ current_agent = "ReviewAndPostingAgent"
    /\ turn_results = <<"HandoffOk">>
    /\ state.gathered_contexts # ""
    /\ state.review_comment # ""

\* C4: every run terminates: whatever the language model decides, the run
\* eventually reaches Completed or Failed.
C4_EveryRunTerminates ==
    <>(run_status \in {"Completed", "Failed"})

\* The turn ceiling N of C5, taken below MaxTurn so that the count can pass it.
TurnCeilingN == MaxTurn - 1

\* C5: with turn ceiling N and a language model that always requests a legal
\* handoff, the turn count never exceeds N and no decision is requested for
\* turn N+1 (the run has ended in Failed(TurnBudgetExhausted) at turn N).
C5_TurnBudgetStopsHandoffs ==
    only_handoffs =>
        /\ turn_count <= TurnCeilingN
        /\ (turn_count >= TurnCeilingN => decision.kind = "none")

\* The key each state tool writes.
KeyOf(tool) ==
    CASE tool = "add_context_to_state" -> "gathered_contexts"
      [] tool = "add_comment_to_state" -> "review_comment"
      [] tool = "add_final_review_to_state" -> "final_review_comment"

\* state with key k set to v, all other keys as they are.
SetKey(s, k, v) == [x \in DOMAIN s |-> IF x = k THEN v ELSE s[x]]

\* The decision is a single call of a state tool that has returned.
SingleStateCallDone ==
    /\ decision.kind = "tools"
    /\ Len(tasks) = 1
    /\ decision.calls[1].tool \in StateTools
    /\ tasks[1].pc = "done"

\* C6: a state-writing tool call, run on its own, sets exactly its own key to
\* the given value and leaves the other two keys as they were; a call over an
\* earlier write of the same key leaves the later value.
C6_StateToolSetsOwnKey ==
    SingleStateCallDone =>
        IF tasks[1].result = "ok"
        THEN state = SetKey(dispatch_state, KeyOf(decision.calls[1].tool),
                            decision.calls[1].arg)
        ELSE tasks[1].result \in {"error", "UnknownTool"} /\ state = dispatch_state

\* add_comment_to_state("v2") has returned over an earlier write of "v1", with
\* the other two keys already written.
C6_Witness ==
    /\ SingleStateCallDone
    /\ tasks[1].result = "ok"
    /\ decision.calls[1] = [tool |-> "add_comment_to_state", arg |-> "v2"]
    /\ dispatch_state.review_comment = "v1"
    /\ dispatch_state.gathered_contexts = "v1"
    /\ state.review_comment = "v2"

\* C7: a failing tool call never ends the run: every call returns a result
\* value, an error value when the GitHub or store operation under it failed,
\* no exception leaves the tool, and while tool calls are being carried out the
\* run stays Running with the same current agent.
C7_ToolFailureIsAResult ==
    /\ [](\A i \in 1..Len(tasks) :
            /\ tasks[i].result # "raised"
            /\ tasks[i].pc = "done" => tasks[i].result \in {"ok", "error", "UnknownTool"}
            /\ tasks[i].fault => (tasks[i].pc = "done" /\ tasks[i].result = "error"))
    /\ [][decision.kind = "tools"
            => (run_status' = "Running" /\ current_agent' = current_agent)]_vars

\* ContextAgent's get_file_contents and add_context_to_state have both failed
\* and returned error values; the run goes on with ContextAgent.
C7_Witness ==
    /\ run_status = "Running"
    /\ current_agent = "ContextAgent"
    /\ Len(tasks) = 2
    /\ decision.calls[1].tool = "get_file_contents"
    /\ decision.calls[2].tool = "add_context_to_state"
    /\ \A i \in 1..2 : tasks[i].pc = "done" /\ tasks[i].fault /\ tasks[i].result = "error"

\* C8: final text with no tool call and no handoff completes the run with that
\* text, and Completed and Failed are absorbing: the status, the result, the
\* current agent, the turn count and the shared state never change again, and
\* no decision, tool call or handoff follows.
C8_TerminalStatesAbsorb ==
    /\ [][(run_status = "Running" /\ decision.kind = "final")
            => (run_status' = "Completed" /\ final_text' = decision.text)]_vars
    /\ [][(run_status \in {"Completed", "Failed"})
            => (/\ run_status' = run_status
                /\ final_text' = final_text
                /\ fail_reason' = fail_reason
                /\ current_agent' = current_agent
                /\ turn_count' = turn_count
                /\ state' = state
                /\ decision' = NoDecision
                /\ tasks' = <<>>)]_vars

\* The run Completed with the text "v2", and main has since read the state and
\* posted the final review.
C8_Witness ==
    /\ run_status = "Completed"
    /\ final_text = "v2"
    /\ main_pc = "done"
    /\ main_posted # ""
    /\ state.final_review_comment = main_posted

\* The scenario of C9 has run: ContextAgent called get_pr_details successfully
\* and handed off to CommentorAgent, and CommentorAgent's next decision is a
\* handoff to ContextAgent.
C9_Scenario ==
    /\ scenario = 2
    /\ run_status = "Running"
    /\ current_agent = "CommentorAgent"
    /\ decision.kind = "handoff"
    /\ decision.to = "ContextAgent"

\* C9 as stated: in that scenario the request is rejected, IllegalHandoff is
\* recorded and CommentorAgent remains the current agent.
C9_HandoffBackRejected ==
    [][C9_Scenario
         => (current_agent' = "CommentorAgent" /\ turn_results' = <<"IllegalHandoff">>)]_vars

\* C9 amended: in that scenario the request is accepted, because ContextAgent
\* is in CommentorAgent's can_handoff_to: the handoff is recorded and
\* ContextAgent becomes the current agent.
C9_HandoffBackAccepted ==
    [][C9_Scenario
         => (/\ current_agent' = "ContextAgent"
             /\ run_status' = "Running"
             /\ turn_results' = <<"HandoffOk">>)]_vars

\* The scenario has run to its end and ContextAgent is current again.
C9_Witness ==
    /\ scenario = 3
    /\ run_status = "Running"
    /\ current_agent = "ContextAgent"
    /\ turn_results = <<"HandoffOk">>

\* The calls of the decision that are state tools of the current agent.
StateCalls == {i \in 1..Len(tasks) : decision.calls[i].tool \in StateTools}

\* The effect of call i on a state s, as a write of its key.
ApplyCall(s, i) == SetKey(s, KeyOf(decision.calls[i].tool), decision.calls[i].arg)

\* The states that result from s by applying the calls in I one after the other,
\* in every order.
RECURSIVE ApplyAll(_, _)
ApplyAll(s, I) ==
    IF I = {} THEN {s}
    ELSE UNION {ApplyAll(ApplyCall(s, i), I \ {i}) : i \in I}

\* C10: whatever the interleaving of the state tools of one decision at their
\* awaits, the state is never half-updated (it is always the result of applying
\* some of the calls one after the other), no write is lost (when all calls have
\* returned it is the result of applying all that succeeded, one after the
\* other in some order), and a key none of the calls writes keeps its value.
C10_InterleavedWritesSerialize ==
    decision.kind = "tools" =>
        /\ \E J \in SUBSET {i \in StateCalls : tasks[i].pc \in {"got", "done"}} :
             state \in ApplyAll(dispatch_state, J)
        /\ (\A i \in 1..Len(tasks) : tasks[i].pc = "done")
             => state \in ApplyAll(dispatch_state,
                                   {i \in StateCalls : tasks[i].result = "ok"})
        /\ \A k \in DOMAIN state :
             (\A i \in StateCalls : KeyOf(decision.calls[i].tool) # k)
               => state[k] = dispatch_state[k]

\* Two calls of add_context_to_state with different texts both read the state
\* before either wrote it back, and both have returned successfully.
C10_Witness ==
    /\ overlapped
    /\ Len(tasks) = 2
    /\ \A i \in 1..2 : tasks[i].pc = "done" /\ tasks[i].result = "ok"
    /\ decision.calls[1] = [tool |-> "add_context_to_state", arg |-> "v2"]
    /\ decision.calls[2] = [tool |-> "add_context_to_state", arg |-> "v1"]
    /\ state.gathered_contexts = "v2"
    /\ state.review_comment # ""

\* C11: the loop waits for every tool call of a decision before it goes on
\* (while a call has no result, the decision stays and nothing goes into
\* history), and when it goes on the results are in history in the order the
\* calls were requested, result i for request i, whatever order they returned in.
C11_ResultsInRequestOrder ==
    [][(run_status = "Running" /\ decision.kind = "tools")
         => IF \E i \in 1..Len(tasks) : tasks[i].pc # "done"
            THEN /\ decision' = decision
                 /\ turn_results' = <<>>
                 /\ turn_count' = turn_count
                 /\ current_agent' = current_agent
            ELSE /\ decision' = NoDecision
                 /\ Len(turn_results') = Len(decision.calls)
                 /\ \A i \in 1..Len(decision.calls) :
                      turn_results'[i] = tasks[i].result]_vars

\* ContextAgent asked for get_file_contents and then add_context_to_state: the
\* second call has returned successfully, the first has not returned yet, and
\* nothing has gone into history.
C11_Witness ==
    /\ run_status = "Running"
    /\ Len(tasks) = 2
    /\ decision.calls[1].tool = "get_file_contents"
    /\ decision.calls[2].tool = "add_context_to_state"
    /\ tasks[1].pc = "pending"
    /\ tasks[2].pc = "done"
    /\ tasks[2].result = "ok"
    /\ turn_results = <<>>

\* C12: a run that fails yields to main's caller a reason string together with
\* the last valid snapshot of the shared state.
C12_FailedRunYieldsSnapshot ==
    (run_status = "Failed" /\ main_pc = "raised")
        => (main_result.reason # "" /\ main_result.snapshot = <<state>>)

\* C13: the shared state always has exactly the three keys it was created with:
\* no operation deletes one of them and none adds another.
C13_StateKeepsItsThreeKeys ==
    DOMAIN state = {"gathered_contexts", "review_comment", "final_review_comment"}

\* Every state tool has written its key, the run has Completed and main has returned.
C13_Witness ==
    /\ main_pc = "done"
    /\ run_status = "Completed"
    /\ state.gathered_contexts # ""
    /\ state.review_comment # ""
    /\ state.final_review_comment # ""

\* The requests of one invocation that created something on the pull request.
Created(calls) ==
    {k \in DOMAIN calls : calls[k].op \in {"create_review", "create_issue_comment"}
                            /\ calls[k].ok}

\* What C14 says of one invocation that made the GitHub requests calls and
\* returned result.
OnePostAtMost(calls, result) ==
    /\ Cardinality(Created(calls)) <= 1
    /\ result \in {"ok", "error"}
    /\ \A k \in DOMAIN calls :
         calls[k].op = "create_issue_comment"
           => \E j \in 1..(k - 1) : calls[j].op = "create_review" /\ ~calls[j].ok
    /\ \A k \in Created(calls) : k = Len(calls)
    /\ result = "ok" <=> Created(calls) # {}
    /\ result = "error"
         <=> \/ \E k \in DOMAIN calls : calls[k].op = "get_pull" /\ ~calls[k].ok
             \/ /\ \E k \in DOMAIN calls : calls[k].op = "create_review" /\ ~calls[k].ok
                /\ \E k \in DOMAIN calls :
                     calls[k].op = "create_issue_comment" /\ ~calls[k].ok

\* C14: one invocation of post_review_to_github, by the agent or by main,
\* creates at most one artifact and returns one result: the issue comment is
\* attempted only after create_review has failed, nothing is attempted after a
\* post has succeeded, the result is a success exactly when one post succeeded,
\* and an error exactly when get_pull failed or both posts failed.
C14_OnePostPerInvocation ==
    /\ \A i \in 1..Len(tasks) :
         (decision.calls[i].tool = "post_review_to_github" /\ tasks[i].pc = "done"
            /\ tasks[i].result # "UnknownTool")
           => OnePostAtMost(tasks[i].calls, tasks[i].result)
    /\ main_posted # ""
         => \E result \in {"ok", "error"} : OnePostAtMost(main_calls, result)

\* The agent's call of post_review_to_github has returned a success after
\* create_review failed and create_issue_comment succeeded.
C14_Witness ==
    /\ Len(tasks) = 1
    /\ decision.calls[1].tool = "post_review_to_github"
    /\ tasks[1].pc = "done"
    /\ tasks[1].result = "ok"
    /\ tasks[1].calls = <<GithubCall("get_pull", TRUE), GithubCall("create_review", FALSE),
                          GithubCall("create_issue_comment", TRUE)>>
    /\ artifacts = 1

\* C15: during one execution of main at most one review is posted to the pull
\* request, counting the posts ReviewAndPostingAgent makes through the
\* post_review_to_github tool and the post main makes after the run.
C15_ReviewPostedAtMostOnce ==
    artifacts <= 1

\* The agent C16 names for each tool.
AgentOfTool(tool) ==
    CASE tool \in {"post_review_to_github", "add_final_review_to_state"}
           -> "ReviewAndPostingAgent"
      [] tool = "add_comment_to_state" -> "CommentorAgent"
      [] tool \in {"add_context_to_state", "get_pr_details", "get_file_contents",
                   "get_pr_commit_details"} -> "ContextAgent"

\* The agent C16 names for each key of the shared state.
AgentOfKey(key) ==
    CASE key = "final_review_comment" -> "ReviewAndPostingAgent"
      [] key = "review_comment" -> "CommentorAgent"
      [] key = "gathered_contexts" -> "ContextAgent"

\* Call i of the decision has entered its tool function.
Invoked(i) ==
    \/ tasks[i].pc = "got"
    \/ tasks[i].pc = "done" /\ tasks[i].result # "UnknownTool"

\* C16: during a run every tool is executed only while the agent that declares
\* it is current: post_review_to_github and the write of final_review_comment
\* under ReviewAndPostingAgent, the write of review_comment under CommentorAgent,
\* the write of gathered_contexts and the GitHub read tools under ContextAgent.
C16_ToolsRunUnderTheirAgent ==
    /\ \A i \in 1..Len(tasks) :
         /\ Invoked(i) => AgentOfTool(decision.calls[i].tool) = current_agent
         /\ tasks[i].calls # <<>> => current_agent = "ReviewAndPostingAgent"
    /\ decision.kind = "tools"
         => \A key \in DOMAIN state :
              state[key] # dispatch_state[key] => AgentOfKey(key) = current_agent
    /\ decision.kind # "tools" => tasks = <<>>

\* ReviewAndPostingAgent, current after the other two agents wrote their keys,
\* has written final_review_comment and posted the review in one decision.
C16_Witness ==
    /\ current_agent = "ReviewAndPostingAgent"
    /\ Len(tasks) = 2
    /\ decision.calls[1].tool = "add_final_review_to_state"
    /\ decision.calls[2].tool = "post_review_to_github"
    /\ \A i \in 1..2 : tasks[i].pc = "done" /\ tasks[i].result = "ok"
    /\ state.final_review_comment # dispatch_state.final_review_comment
    /\ state.gathered_contexts # ""
    /\ state.review_comment # ""

\* C17: main posts only after the run has Completed and only when
\* final_review_comment in the closing state is not empty, and what it posts is
\* that value; when the run Failed, or Completed with final_review_comment
\* empty, main posts nothing and makes no request to GitHub.
C17_MainPostsFinalReviewOnly ==
    /\ main_posted # ""
         => /\ run_status = "Completed"
            /\ main_pc = "done"
            /\ main_posted = state.final_review_comment
    /\ main_calls # <<>> => main_posted # ""
    /\ run_status = "Running" => main_pc = "run"
    /\ (main_pc # "run" /\ (run_status = "Failed" \/ state.final_review_comment = ""))
         => (main_posted = "" /\ main_calls = <<>>)

\* The run Completed with the draft "v1" and the final review "v2" in the state,
\* and main has posted "v2" as a review.
C17_Witness ==
    /\ run_status = "Completed"
    /\ main_pc = "done"
    /\ state.review_comment = "v1"
    /\ state.final_review_comment = "v2"
    /\ main_posted = "v2"
    /\ main_calls = <<GithubCall("get_pull", TRUE), GithubCall("create_review", TRUE)>>

\* C18: the run starts at ReviewAndPostingAgent and control passes between
\* ContextAgent and ReviewAndPostingAgent only through CommentorAgent: whenever
\* the current agent changes, the old or the new one is CommentorAgent, so
\* ContextAgent becomes current only from CommentorAgent and never before
\* CommentorAgent has been current.
C18_ControlPassesThroughCommentor ==
    /\ current_agent = "ReviewAndPostingAgent"
    /\ [][current_agent' # current_agent
            => (/\ "CommentorAgent" \in {current_agent, current_agent'}
                /\ current_agent' = "ContextAgent" => current_agent = "CommentorAgent")]_vars

\* ReviewAndPostingAgent wrote the final review, and control has since passed
\* from it through CommentorAgent to ContextAgent.
C18_Witness ==
    /\ run_status = "Running"
    /\ current_agent = "ContextAgent"
    /\ turn_results = <<"HandoffOk">>
    /\ turn_count >= 2
    /\ state.final_review_comment # ""

====
